---- MODULE Spec2Model ----
(***************************************************************************)
(* Bitcoin-family transaction signing flow of the X1 wallet firmware,      *)
(* apps/btc_family/btc_txn.c.                                              *)
(*                                                                         *)
(* The model follows btc_sign_transaction and the six static phase         *)
(* functions it chains.  The host (queries), the user (prompt answers),    *)
(* malloc and uninitialised heap memory are the environment: their         *)
(* outcomes are drawn from small sets.  Everything the device does that    *)
(* is visible from outside (responses, errors, prompts, allocations,       *)
(* frees, phase calls and returns) is appended to the variable trace.      *)
(*                                                                         *)
(* Two kinds of run start from the idle state:                             *)
(*   - btc_sign_transaction : the exported entry point, as coded;          *)
(*   - call_<phase>         : the chain of btc_sign_transaction entered    *)
(*     at one static phase function, on the context its predecessors       *)
(*     leave behind when they succeed; from there the run follows the      *)
(*     chain to the cleanup, like any other.  The chain started at         *)
(*     handle_initiate_query never enters a loop round of                  *)
(*     fetch_valid_input, nor any later phase (see Chain), so these runs   *)
(*     are the only way to exercise that code.                             *)
(***************************************************************************)
EXTENDS Integers, Sequences, FiniteSets, TLC

(***************************************************************************)
(* Bounds of the model.                                                    *)
(***************************************************************************)
MaxCount == 2
MaxValue == 2

(***************************************************************************)
(* Program constants.                                                      *)
(***************************************************************************)
SIGHASH_ALL == 1
OP_RETURN == 106

Phases == <<"INIT", "META", "INPUTS", "OUTPUTS", "VERIFY", "SIGN">>

PhaseIndex(p) == CHOOSE i \in 1..Len(Phases) : Phases[i] = p

(***************************************************************************)
(* Data domains.                                                           *)
(***************************************************************************)
Values == 0..MaxValue

\* locking scripts: a data-carrier script and a pay-to-pubkey-hash prefix
Scripts == { <<OP_RETURN, 1>>, <<118, 169>> }

\* first byte of a bounded byte string; the decoder zero-fills the array, so
\* an empty script reads as 0
FirstByte(script) == IF Len(script) = 0 THEN 0 ELSE script[1]

\* derivation paths
Paths == { <<>>, <<44, 0, 0>>, <<7, 0, 0>> }

WalletIds == {1, 2}

\* raw previous transactions, each the list of its outputs: one with a
\* single output, one with two
RawTxns ==
  { << [value |-> 1, script_pub_key |-> <<118, 169>>] >>,
    << [value |-> 2, script_pub_key |-> <<118, 169>>],
       [value |-> 1, script_pub_key |-> <<OP_RETURN, 1>>] >> }

Indexes == 0..1

(***************************************************************************)
(* The double hash of a raw previous transaction.  Serialize lays the      *)
(* outputs out as bytes; Digest is a polynomial hash, applied twice.  It   *)
(* is injective on RawTxns (checked by HashInjective), which is the        *)
(* collision resistance the flow relies on.                                *)
(***************************************************************************)
RECURSIVE Serialize(_)
Serialize(raw) ==
  IF raw = <<>> THEN <<>>
  ELSE <<Head(raw).value, Len(Head(raw).script_pub_key)>>
         \o Head(raw).script_pub_key \o Serialize(Tail(raw))

RECURSIVE DigestFrom(_, _)
DigestFrom(acc, bytes) ==
  IF bytes = <<>> THEN acc
  ELSE DigestFrom((acc * 31 + Head(bytes) + 1) % 65521, Tail(bytes))

Digest(bytes) == DigestFrom(7, bytes)

DoubleHash(bytes) == Digest(<<Digest(bytes) % 256, Digest(bytes) \div 256>>)

HashOf(raw) == DoubleHash(Serialize(raw))

Hashes == { HashOf(raw) : raw \in RawTxns }

HashInjective == \A a, b \in RawTxns : HashOf(a) = HashOf(b) => a = b

(***************************************************************************)
(* Requests of the host, one record per sub-request of btc_sign_txn.       *)
(***************************************************************************)
InitiateRequests ==
  [which_request : {"INITIATE"}, derivation_path : Paths, wallet_id : WalletIds]

MetaRequests ==
  [which_request : {"META"}, sighash : {0, SIGHASH_ALL},
   input_count : 0..MaxCount, output_count : 0..MaxCount]

InputRequests ==
  [which_request : {"INPUT"}, prev_txn : RawTxns, prev_txn_hash : Hashes,
   prev_output_index : Indexes, value : Values,
   script_pub_key : {<<118, 169>>}]

OutputRequests ==
  [which_request : {"OUTPUT"}, value : Values, script_pub_key : Scripts,
   is_change : BOOLEAN]

SignatureRequests == [which_request : {"SIGNATURE"}]

Queries == InitiateRequests \cup MetaRequests \cup InputRequests
             \cup OutputRequests \cup SignatureRequests

Tags == {"INITIATE", "META", "INPUT", "OUTPUT", "SIGNATURE"}

\* What a round of a loop phase can find in the query buffer: the phase
\* reads the request through its own member of the request union whatever
\* the discriminant says, so a request is its discriminant together with
\* the bytes as that member shows them.
RoundQueries(member) ==
  { [r EXCEPT !.which_request = w] : w \in Tags, r \in member }

\* The buffer read through `member` of the request union.  A request that
\* was decoded into that member reads as itself; the bytes of any other
\* member read as whatever they happen to spell there.
ViewAs(member, q) ==
  IF \E r \in member : DOMAIN r = DOMAIN q
    THEN {q}
    ELSE { [r EXCEPT !.which_request = q.which_request] : r \in member }

(***************************************************************************)
(* State.                                                                  *)
(*   entry    the function the run entered ("none" while idle)             *)
(*   pc       where the run is: "idle", a phase of Phases (that phase      *)
(*            function is about to run, or is at the head of its loop),    *)
(*            "cleanup" (btc_txn.c:470), "done" (btc_sign_transaction      *)
(*            returned), "fault" (undefined behaviour happened: what       *)
(*            follows is unconstrained)                                    *)
(*   btc_txn_context  the module pointer and the context it points to      *)
(*   query    the caller's btc_query_t buffer, reused by every round       *)
(*   idx      loop index of the phase that is running                      *)
(*   zero_value_transaction   local of fetch_valid_output                  *)
(*   trace    everything observable the run did so far                     *)
(***************************************************************************)
VARIABLES entry, pc, btc_txn_context, query, idx, zero_value_transaction, trace

vars == <<entry, pc, btc_txn_context, query, idx, zero_value_transaction, trace>>

\* one observable event: kind, what, a number, an outcome
Ev(k, p, n, ok) == [k |-> k, p |-> p, n |-> n, ok |-> ok]

ZeroInitInfo == [derivation_path |-> <<>>, wallet_id |-> 0]

ZeroMetadata == [sighash |-> 0, input_count |-> 0, output_count |-> 0]

NullBuffer == [null |-> TRUE, cells |-> <<>>]

\* btc_txn_context = NULL
NullContext ==
  [null |-> TRUE, init_info |-> ZeroInitInfo, metadata |-> ZeroMetadata,
   inputs |-> NullBuffer, outputs |-> NullBuffer]

\* the context after memzero: every field 0, both buffer pointers NULL
ZeroContext == [NullContext EXCEPT !.null = FALSE]

\* a cell of a malloc'ed buffer nobody wrote yet
UninitInput ==
  [prev_txn_hash |-> -1, prev_output_index |-> -1, value |-> -1,
   script_pub_key |-> <<>>]

UninitOutput == [value |-> -1, script_pub_key |-> <<>>, is_change |-> FALSE]

\* malloc of n cells: NULL when it fails, n unwritten cells otherwise
malloc(n, ok, cell) ==
  IF ok THEN [null |-> FALSE, cells |-> [i \in 1..n |-> cell]] ELSE NullBuffer

\* send_response: an empty result carrying the response tag
send_response(which_response) == <<Ev("send", which_response, 0, TRUE)>>

\* btc_send_error(ERROR_COMMON_ERROR_CORRUPT_DATA_TAG, subcode)
btc_send_error(subcode) == <<Ev("error", subcode, 0, FALSE)>>

\* check_which_request: the events it causes; it passes iff it causes none
check_which_request(q, which_request) ==
  IF which_request # q.which_request
    THEN btc_send_error("INVALID_REQUEST")
    ELSE <<>>

\* the path policy, an external pure function
btc_derivation_path_guard(path) == Len(path) = 3 /\ path[1] \in {44, 49, 84}

\* validate_request_data letting every path through
validate_request_data_unguarded(request) == <<>>

\* validate_request_data: the events it causes; it passes iff it causes none
validate_request_data(request) ==
  IF ~btc_derivation_path_guard(request.derivation_path)
    THEN btc_send_error("INVALID_DATA")
    ELSE <<>>

\* the wallet lookup, an external collaborator
get_wallet_name_by_id(wallet_id) == wallet_id = 1

\* btc_get_query, awaited by `phase`: the buffer after the call and the
\* event of the await.  A failed await (timeout, abort) decodes nothing and
\* leaves the buffer as it was.
btc_get_query(phase, got, q) ==
  [query |-> IF got THEN q ELSE query,
   evs |-> <<Ev("query", phase, 0, got)>>]

(***************************************************************************)
(* The chain of btc_sign_transaction, btc_txn.c:464-468:                   *)
(*   if (!handle_initiate_query(query) && !fetch_transaction_meta(query)   *)
(*       && ... && !sign_input_utxo(query)) delay_scr_init(...)            *)
(* A phase that returns true makes its operand false: && stops and the     *)
(* flow goes to the cleanup.  A phase that returns false makes the         *)
(* operand true: && evaluates the next operand, the next phase.            *)
(***************************************************************************)
Chain(phase, result) ==
  IF result \/ phase = "SIGN" THEN "cleanup"
  ELSE Phases[PhaseIndex(phase) + 1]

\* delay_scr_init(ui_text_check_cysync) runs iff every operand was true
ChainNotice(phase, result) ==
  IF ~result /\ phase = "SIGN" THEN <<Ev("notice", "check_cysync", 0, TRUE)>>
  ELSE <<>>

\* `phase` returns `result` after causing the events evs; the chain
\* decides what runs next
Return(phase, result, evs) ==
  /\ trace' = trace \o evs \o <<Ev("ret", phase, 0, result)>>
                 \o ChainNotice(phase, result)
  /\ pc' = Chain(phase, result)
  /\ idx' = 0
  /\ zero_value_transaction' = TRUE

\* undefined behaviour: the run leaves the model
Fault(what, evs) ==
  /\ trace' = trace \o evs \o <<Ev("fault", what, 0, FALSE)>>
  /\ pc' = "fault"
  /\ UNCHANGED <<idx, zero_value_transaction>>

Init ==
  /\ entry = "none"
  /\ pc = "idle"
  /\ btc_txn_context = NullContext
  /\ query = [which_request |-> "SIGNATURE"]
  /\ idx = 0
  /\ zero_value_transaction = TRUE
  /\ trace = <<>>

(***************************************************************************)
(* btc_sign_transaction, btc_txn.c:460-462: the caller hands over the      *)
(* decoded first query; the context is malloc'ed and zeroed.  memzero of   *)
(* the NULL a failed malloc returns is undefined.                          *)
(***************************************************************************)
btc_sign_transaction ==
  /\ pc = "idle"
  /\ \E q \in Queries, ok \in BOOLEAN :
       /\ entry' = "btc_sign_transaction"
       /\ query' = q
       /\ btc_txn_context' = IF ok THEN ZeroContext ELSE NullContext
       /\ IF ok
            THEN /\ trace' = trace \o <<Ev("malloc", "context", 1, TRUE)>>
                 /\ pc' = "INIT"
                 /\ UNCHANGED <<idx, zero_value_transaction>>
            ELSE Fault("memzero(NULL)", <<Ev("malloc", "context", 1, FALSE)>>)

\* StoreInitInfo copying the initiate request before consent is asked
StoreInitInfoEarly(context, request, accepted) ==
  IF request.which_request = "INITIATE"
    THEN [context EXCEPT !.init_info =
            [derivation_path |-> request.derivation_path,
             wallet_id |-> request.wallet_id]]
    ELSE context

\* btc_txn.c:262-278: the context handle_initiate_query leaves behind; the
\* memcpy of the request into init_info comes after every return false
StoreInitInfo(context, request, accepted) ==
  IF accepted
    THEN [context EXCEPT !.init_info =
            [derivation_path |-> request.derivation_path,
             wallet_id |-> request.wallet_id]]
    ELSE context

(***************************************************************************)
(* handle_initiate_query, btc_txn.c:256-281.                               *)
(***************************************************************************)
handle_initiate_query ==
  /\ pc = "INIT"
  /\ \E answer \in BOOLEAN :
       LET call == <<Ev("call", "INIT", 0, TRUE)>>
           chk == check_which_request(query, "INITIATE")
           val == IF chk = <<>> THEN validate_request_data(query) ELSE <<>>
           found == chk = <<>> /\ val = <<>>
                      /\ get_wallet_name_by_id(query.wallet_id)
           prompt == <<Ev("prompt", "send", 0, answer)>>
       IN  /\ btc_txn_context' =
                StoreInitInfo(btc_txn_context, query, found /\ answer)
           /\ UNCHANGED <<entry, query>>
           /\ IF ~found
                THEN Return("INIT", FALSE, call \o chk \o val)
              ELSE IF ~answer
                THEN Return("INIT", FALSE, call \o prompt)
              ELSE Return("INIT", TRUE,
                     call \o prompt \o <<Ev("status", "CONFIRM", 0, TRUE)>>
                       \o send_response("CONFIRMATION"))

\* UnsupportedMeta without the test of the signature hash type
UnsupportedMetaAnySighash(meta) ==
  \/ 0 = meta.input_count
  \/ 0 = meta.output_count

\* btc_txn.c:289-291: metadata the device does not sign
UnsupportedMeta(meta) ==
  \/ SIGHASH_ALL # meta.sighash
  \/ 0 = meta.input_count
  \/ 0 = meta.output_count

(***************************************************************************)
(* fetch_transaction_meta, btc_txn.c:283-314.  Neither malloc is checked.  *)
(***************************************************************************)
fetch_transaction_meta ==
  /\ pc = "META"
  /\ \E got \in BOOLEAN, q \in Queries, okI \in BOOLEAN, okO \in BOOLEAN :
       LET call == <<Ev("call", "META", 0, TRUE)>>
           get == btc_get_query("META", got, q)
           chk == IF got THEN check_which_request(get.query, "META") ELSE <<>>
           pass == got /\ chk = <<>>
           bad == pass /\ UnsupportedMeta(get.query)
       IN  /\ query' = get.query
           /\ UNCHANGED entry
           /\ IF ~pass
                THEN /\ Return("META", FALSE, call \o get.evs \o chk)
                     /\ UNCHANGED btc_txn_context
              ELSE IF bad
                THEN /\ Return("META", FALSE,
                          call \o get.evs \o btc_send_error("INVALID_DATA"))
                     /\ UNCHANGED btc_txn_context
              ELSE /\ btc_txn_context' =
                        [btc_txn_context EXCEPT
                           !.metadata = [sighash |-> get.query.sighash,
                                         input_count |-> get.query.input_count,
                                         output_count |-> get.query.output_count],
                           !.inputs = malloc(get.query.input_count, okI, UninitInput),
                           !.outputs = malloc(get.query.output_count, okO, UninitOutput)]
                   /\ Return("META", TRUE,
                        call \o get.evs
                          \o <<Ev("malloc", "inputs", get.query.input_count, okI),
                               Ev("malloc", "outputs", get.query.output_count, okO)>>
                          \o send_response("META_ACCEPTED"))

\* FreeAll without the release of the outputs buffer
FreeAllButOutputs(context) ==
  (IF ~context.null /\ ~context.inputs.null
     THEN <<Ev("free", "inputs", 0, TRUE)>> ELSE <<>>)
  \o (IF ~context.null
        THEN <<Ev("free", "context", 0, TRUE)>> ELSE <<>>)

\* btc_txn.c:470-478: the calls of free
FreeAll(context) ==
  (IF ~context.null /\ ~context.inputs.null
     THEN <<Ev("free", "inputs", 0, TRUE)>> ELSE <<>>)
  \o (IF ~context.null /\ ~context.outputs.null
        THEN <<Ev("free", "outputs", 0, TRUE)>> ELSE <<>>)
  \o (IF ~context.null
        THEN <<Ev("free", "context", 0, TRUE)>> ELSE <<>>)

(***************************************************************************)
(* The cleanup of btc_sign_transaction, btc_txn.c:470-479.                 *)
(***************************************************************************)
cleanup ==
  /\ pc = "cleanup"
  /\ trace' = trace \o FreeAll(btc_txn_context)
  /\ btc_txn_context' = NullContext
  /\ pc' = "done"
  /\ UNCHANGED <<entry, query, idx, zero_value_transaction>>

(***************************************************************************)
(* The previous-transaction verifier, an external collaborator.  It is     *)
(* handed the raw bytes and the input record; the hash and the output      *)
(* index it checks are the ones it finds in that record.  On a match it    *)
(* extracts the value and the locking script of that output into the       *)
(* record.                                                                 *)
(***************************************************************************)
btc_verify_input(raw, input) ==
  LET ok == /\ HashOf(raw) = input.prev_txn_hash
            /\ input.prev_output_index \in 0..(Len(raw) - 1)
  IN  [ok |-> ok,
       input |-> IF ok
                   THEN [input EXCEPT
                           !.value = raw[input.prev_output_index + 1].value,
                           !.script_pub_key =
                              raw[input.prev_output_index + 1].script_pub_key]
                   ELSE input]

\* What reading an input cell yields.  A cell nobody wrote holds whatever
\* the heap held: any hash (0 is the hash of no transaction here) and any
\* index.
ReadInput(cell) ==
  IF cell = UninitInput
    THEN { [cell EXCEPT !.prev_txn_hash = h, !.prev_output_index = i] :
             h \in Hashes \cup {0}, i \in Indexes }
    ELSE {cell}

\* btc_txn.c:346-356: the input details cloned from the request
CloneInput(input, request) ==
  [input EXCEPT !.prev_output_index = request.prev_output_index,
                !.value = request.value,
                !.script_pub_key = request.script_pub_key,
                !.prev_txn_hash = request.prev_txn_hash]

\* btc_txn.c:320-323 and 369-372: whether the round goes on after the await.
\* The two tests are joined by &&: the request type is looked at only when
\* the await failed.  The events are those of check_which_request.
RoundGate(got, q, which_request) ==
  LET chk == IF ~got THEN check_which_request(q, which_request) ELSE <<>>
  IN  [go |-> ~(~got /\ chk # <<>>), evs |-> chk]

(***************************************************************************)
(* fetch_valid_input, btc_txn.c:316-362: the loop exit, or one round.      *)
(***************************************************************************)
fetch_valid_input ==
  /\ pc = "INPUTS"
  /\ UNCHANGED entry
  /\ LET call == IF idx = 0 THEN <<Ev("call", "INPUTS", 0, TRUE)>> ELSE <<>>
     IN  IF ~(idx < btc_txn_context.metadata.input_count)
           THEN /\ Return("INPUTS", TRUE, call)
                /\ UNCHANGED <<btc_txn_context, query>>
         ELSE \E got \in BOOLEAN, q \in RoundQueries(InputRequests) :
           LET get == btc_get_query("INPUTS", got, q)
               gate == RoundGate(got, get.query, "INPUT")
           IN  \E request \in ViewAs(InputRequests, get.query) :
               /\ query' = get.query
               /\ IF ~gate.go
                    THEN /\ Return("INPUTS", FALSE, call \o get.evs \o gate.evs)
                         /\ UNCHANGED btc_txn_context
                  ELSE IF btc_txn_context.inputs.null
                    THEN /\ Fault("inputs[idx] of NULL", call \o get.evs)
                         /\ UNCHANGED btc_txn_context
                  ELSE \E input \in ReadInput(btc_txn_context.inputs.cells[idx + 1]) :
                    LET v == btc_verify_input(request.prev_txn, input)
                    IN  IF ~v.ok
                          THEN /\ Return("INPUTS", FALSE,
                                    call \o get.evs \o btc_send_error("INVALID_DATA"))
                               /\ UNCHANGED btc_txn_context
                        ELSE /\ btc_txn_context' =
                                  [btc_txn_context EXCEPT !.inputs.cells[idx + 1] =
                                     CloneInput(v.input, request)]
                             /\ trace' = trace \o call \o get.evs
                                           \o send_response("INPUT_ACCEPTED")
                             /\ idx' = idx + 1
                             /\ UNCHANGED <<pc, zero_value_transaction>>

\* LocksFunds with change outputs let through
LocksFundsUnlessChange(output) ==
  /\ OP_RETURN = FirstByte(output.script_pub_key)
  /\ 0 # output.value
  /\ ~output.is_change

\* btc_txn.c:380: an output that would lock funds in a data-carrier script
LocksFunds(output) ==
  OP_RETURN = FirstByte(output.script_pub_key) /\ 0 # output.value

\* ZeroValueTransaction with the test of the value inverted
ZeroValueTransactionInverted(flag, output) == flag /\ 0 # output.value

\* btc_txn.c:377-379: the flag stays set while every value seen is zero
ZeroValueTransaction(flag, output) == flag /\ 0 = output.value

\* btc_txn.c:374-376: the output copied verbatim from the request
CloneOutput(request) ==
  [value |-> request.value, script_pub_key |-> request.script_pub_key,
   is_change |-> request.is_change]

(***************************************************************************)
(* fetch_valid_output, btc_txn.c:364-396: the end of the loop, or one      *)
(* round.                                                                  *)
(***************************************************************************)
fetch_valid_output ==
  /\ pc = "OUTPUTS"
  /\ UNCHANGED entry
  /\ LET call == IF idx = 0 THEN <<Ev("call", "OUTPUTS", 0, TRUE)>> ELSE <<>>
     IN  IF ~(idx < btc_txn_context.metadata.output_count)
           THEN /\ IF zero_value_transaction
                     THEN Return("OUTPUTS", FALSE,
                            call \o btc_send_error("INVALID_DATA"))
                     ELSE Return("OUTPUTS", TRUE, call)
                /\ UNCHANGED <<btc_txn_context, query>>
         ELSE \E got \in BOOLEAN, q \in RoundQueries(OutputRequests) :
           LET get == btc_get_query("OUTPUTS", got, q)
               gate == RoundGate(got, get.query, "OUTPUT")
           IN  \E output \in ViewAs(OutputRequests, get.query) :
               /\ query' = get.query
               /\ IF ~gate.go
                    THEN /\ Return("OUTPUTS", FALSE, call \o get.evs \o gate.evs)
                         /\ UNCHANGED btc_txn_context
                  ELSE IF btc_txn_context.outputs.null
                    THEN /\ Fault("outputs[idx] of NULL", call \o get.evs)
                         /\ UNCHANGED btc_txn_context
                  ELSE /\ btc_txn_context' =
                            [btc_txn_context EXCEPT !.outputs.cells[idx + 1] =
                               CloneOutput(output)]
                       /\ IF LocksFunds(output)
                            THEN Return("OUTPUTS", FALSE,
                                   call \o get.evs \o btc_send_error("INVALID_DATA"))
                            ELSE /\ trace' = trace \o call \o get.evs
                                               \o send_response("INPUT_ACCEPTED")
                                 /\ idx' = idx + 1
                                 /\ zero_value_transaction' =
                                      ZeroValueTransaction(zero_value_transaction, output)
                                 /\ UNCHANGED pc

RECURSIVE SumValues(_)
SumValues(cells) ==
  IF cells = <<>> THEN 0 ELSE Head(cells).value + SumValues(Tail(cells))

\* What reading an output cell yields.  A cell nobody wrote holds whatever
\* the heap held.
ReadOutput(cell) ==
  IF cell = UninitOutput
    THEN [value : Values, script_pub_key : Scripts, is_change : BOOLEAN]
    ELSE {cell}

\* the sums a reader of the values of these cells can find: a cell nobody
\* wrote contributes any value
RECURSIVE ReadSums(_)
ReadSums(cells) ==
  IF cells = <<>> THEN {0}
  ELSE { v + s : v \in (IF Head(cells).value < 0 THEN Values
                                               ELSE {Head(cells).value}),
                 s \in ReadSums(Tail(cells)) }

\* btc_get_txn_fee, an external helper: the fee, unless the outputs
\* overspend the inputs.  The results it can give: one, when every cell of
\* both buffers was written.
btc_get_txn_fee(context) ==
  { [ok |-> out <= in, fee |-> IF out <= in THEN in - out ELSE 0] :
      in \in ReadSums(context.inputs.cells),
      out \in ReadSums(context.outputs.cells) }

\* get_transaction_fee_threshold, an external policy: any ceiling
FeeThresholds == Values

\* IsChange with no output taken for change
IsChangeNever(output) == FALSE

\* btc_txn.c:408: outputs the user is not shown
IsChange(output) == output.is_change

\* Overspending with the result of btc_get_txn_fee ignored
OverspendingIgnored(txn_fee) == FALSE

\* btc_txn.c:425: the fee cannot be computed, the outputs overspend
Overspending(txn_fee) == ~txn_fee.ok

\* btc_txn.c:434: the fee is above the ceiling
FeeTooHigh(fee_in_satoshi, max_fee) == fee_in_satoshi > max_fee

\* ShowFee without the page
ShowFeeSkipped(fee_in_satoshi, fee_ok) == <<>>

\* btc_txn.c:439-440: the fee page, and the answer of the user
ShowFee(fee_in_satoshi, fee_ok) ==
  <<Ev("prompt", "fee", fee_in_satoshi, fee_ok)>>

(***************************************************************************)
(* get_user_verification, btc_txn.c:398-444: one output of the receiver    *)
(* loop, or the fee part after the loop.                                   *)
(***************************************************************************)
get_user_verification ==
  /\ pc = "VERIFY"
  /\ UNCHANGED <<entry, btc_txn_context, query>>
  /\ LET call == IF idx = 0 THEN <<Ev("call", "VERIFY", 0, TRUE)>> ELSE <<>>
     IN  IF idx < btc_txn_context.metadata.output_count
           THEN IF btc_txn_context.outputs.null
                  THEN Fault("outputs[idx] of NULL", call)
                ELSE \E output \in ReadOutput(btc_txn_context.outputs.cells[idx + 1]) :
                         IF IsChange(output)
                           THEN /\ trace' = trace \o call
                                /\ idx' = idx + 1
                                /\ UNCHANGED <<pc, zero_value_transaction>>
                         ELSE \E address_ok \in BOOLEAN, value_ok \in BOOLEAN :
                           LET p1 == <<Ev("prompt", "address", idx + 1, address_ok)>>
                               p2 == <<Ev("prompt", "value", output.value, value_ok)>>
                           IN  IF ~address_ok
                                 THEN Return("VERIFY", FALSE, call \o p1)
                               ELSE IF ~value_ok
                                 THEN Return("VERIFY", FALSE, call \o p1 \o p2)
                               ELSE /\ trace' = trace \o call \o p1 \o p2
                                    /\ idx' = idx + 1
                                    /\ UNCHANGED <<pc, zero_value_transaction>>
         ELSE \E max_fee \in FeeThresholds, warning_ok \in BOOLEAN, fee_ok \in BOOLEAN,
                 txn_fee \in btc_get_txn_fee(btc_txn_context) :
           LET limit == <<Ev("threshold", "max_fee", max_fee, TRUE)>>
               fee_in_satoshi == txn_fee.fee
               warn == IF FeeTooHigh(fee_in_satoshi, max_fee)
                         THEN <<Ev("prompt", "fee_too_high", fee_in_satoshi, warning_ok)>>
                         ELSE <<>>
               page == ShowFee(fee_in_satoshi, fee_ok)
           IN  IF Overspending(txn_fee)
                 THEN Return("VERIFY", FALSE,
                        call \o limit \o btc_send_error("INVALID_DATA"))
               ELSE IF FeeTooHigh(fee_in_satoshi, max_fee) /\ ~warning_ok
                 THEN Return("VERIFY", FALSE, call \o limit \o warn)
               ELSE IF ~fee_ok
                 THEN Return("VERIFY", FALSE, call \o limit \o warn \o page)
               ELSE Return("VERIFY", TRUE, call \o limit \o warn \o page)

\* btc_txn.c:452-453: what the signing stub sends for a signature request
SignInputs(request) == <<>>

\* What sign_input_utxo can receive: it reads the discriminant of the
\* request and nothing else (btc_txn.c:447-448), so a request is told apart
\* by its discriminant only.
Discriminants == [which_request : Tags]

(***************************************************************************)
(* sign_input_utxo, btc_txn.c:446-454.                                     *)
(***************************************************************************)
sign_input_utxo ==
  /\ pc = "SIGN"
  /\ UNCHANGED <<entry, btc_txn_context>>
  /\ \E got \in BOOLEAN, q \in Discriminants :
       LET call == <<Ev("call", "SIGN", 0, TRUE)>>
           get == btc_get_query("SIGN", got, q)
           chk == IF got THEN check_which_request(get.query, "SIGNATURE") ELSE <<>>
           pass == got /\ chk = <<>>
       IN  /\ query' = get.query
           /\ Return("SIGN", FALSE,
                call \o get.evs \o chk
                  \o (IF pass THEN SignInputs(get.query) ELSE <<>>))

(***************************************************************************)
(* The phase functions entered directly.  Each starts on a context that    *)
(* handle_initiate_query and fetch_transaction_meta, and the phases        *)
(* between, leave behind when they succeed and both buffers were           *)
(* allocated; the query buffer holds the last request of the phase         *)
(* before.                                                                 *)
(***************************************************************************)
AcceptedInitInfo == [derivation_path |-> <<44, 0, 0>>, wallet_id |-> 1]

\* the context after INIT and META accepted n inputs and m outputs
MetaAccepted(n, m, okI, okO) ==
  [null |-> FALSE, init_info |-> AcceptedInitInfo,
   metadata |-> [sighash |-> SIGHASH_ALL, input_count |-> n, output_count |-> m],
   inputs |-> malloc(n, okI, UninitInput),
   outputs |-> malloc(m, okO, UninitOutput)]

MetaRequest(n, m) ==
  [which_request |-> "META", sighash |-> SIGHASH_ALL,
   input_count |-> n, output_count |-> m]

\* an input record as fetch_valid_input stores it
StoredInput(v) ==
  [prev_txn_hash |-> HashOf(<< [value |-> 1, script_pub_key |-> <<118, 169>>] >>),
   prev_output_index |-> 0, value |-> v, script_pub_key |-> <<118, 169>>]

InputRequest(v) ==
  [which_request |-> "INPUT",
   prev_txn |-> << [value |-> 1, script_pub_key |-> <<118, 169>>] >>,
   prev_txn_hash |-> StoredInput(v).prev_txn_hash,
   prev_output_index |-> 0, value |-> v, script_pub_key |-> <<118, 169>>]

OutputRequest(output) ==
  [which_request |-> "OUTPUT", value |-> output.value,
   script_pub_key |-> output.script_pub_key, is_change |-> output.is_change]

\* the sequences over S of length 1..n
SeqsUpTo(S, n) == UNION { [1..k -> S] : k \in 1..n }

\* output lists fetch_valid_output accepts: no output locks funds in a
\* data-carrier script (btc_txn.c:380) and some value is not zero (389)
AcceptedOutputs ==
  { outs \in SeqsUpTo({ o \in [value : Values, script_pub_key : Scripts,
                               is_change : BOOLEAN] : ~LocksFunds(o) },
                      MaxCount) :
      \E i \in 1..Len(outs) : outs[i].value # 0 }

Enter(function, phase, context, q) ==
  /\ entry' = function
  /\ pc' = phase
  /\ btc_txn_context' = context
  /\ query' = q
  /\ UNCHANGED <<idx, zero_value_transaction, trace>>

call_fetch_valid_input ==
  /\ pc = "idle"
  /\ \E n \in 1..MaxCount :
      Enter("fetch_valid_input", "INPUTS",
            MetaAccepted(n, 1, TRUE, TRUE), MetaRequest(n, 1))

call_fetch_valid_output ==
  /\ pc = "idle"
  /\ \E m \in 1..MaxCount :
      Enter("fetch_valid_output", "OUTPUTS",
            [MetaAccepted(1, m, TRUE, TRUE) EXCEPT !.inputs.cells = <<StoredInput(1)>>],
            InputRequest(1))

call_get_user_verification ==
  /\ pc = "idle"
  /\ \E ins \in SeqsUpTo({1, MaxValue}, MaxCount), outs \in AcceptedOutputs :
      Enter("get_user_verification", "VERIFY",
            [MetaAccepted(Len(ins), Len(outs), TRUE, TRUE) EXCEPT
               !.inputs.cells = [i \in 1..Len(ins) |-> StoredInput(ins[i])],
               !.outputs.cells = outs],
            OutputRequest(outs[Len(outs)]))

call_sign_input_utxo ==
  /\ pc = "idle"
  /\ \E outs \in { o \in AcceptedOutputs : Len(o) = 1 } :
      Enter("sign_input_utxo", "SIGN",
            [MetaAccepted(1, 1, TRUE, TRUE) EXCEPT
               !.inputs.cells = <<StoredInput(MaxValue)>>,
               !.outputs.cells = outs],
            OutputRequest(outs[1]))

Next ==
  \/ btc_sign_transaction
  \/ handle_initiate_query
  \/ fetch_transaction_meta
  \/ fetch_valid_input
  \/ fetch_valid_output
  \/ get_user_verification
  \/ sign_input_utxo
  \/ cleanup
  \/ call_fetch_valid_input
  \/ call_fetch_valid_output
  \/ call_get_user_verification
  \/ call_sign_input_utxo

Spec == Init /\ [][Next]_vars

(***************************************************************************)
(* Reading the trace.                                                      *)
(***************************************************************************)
Flow == entry = "btc_sign_transaction"

IsCall(i, phase) == trace[i].k = "call" /\ trace[i].p = phase

IsRet(i, phase, result) ==
  trace[i].k = "ret" /\ trace[i].p = phase /\ trace[i].ok = result

Called(phase) == \E i \in 1..Len(trace) : IsCall(i, phase)

Returned(phase, result) == \E i \in 1..Len(trace) : IsRet(i, phase, result)

\* the run received a request while in `phase`
Received(phase) == \E i \in 1..Len(trace) : trace[i] = Ev("query", phase, 0, TRUE)

Sent(which_response) ==
  \E i \in 1..Len(trace) : trace[i] = Ev("send", which_response, 0, TRUE)

Allocs(what) ==
  Cardinality({ i \in 1..Len(trace) :
                  trace[i].k = "malloc" /\ trace[i].p = what /\ trace[i].ok })

Frees(what) ==
  Cardinality({ i \in 1..Len(trace) : trace[i].k = "free" /\ trace[i].p = what })

\* the run ends with these events
EndsWith(evs) ==
  /\ Len(trace) >= Len(evs)
  /\ SubSeq(trace, Len(trace) - Len(evs) + 1, Len(trace)) = evs

\* the context is still allocated
Live == ~btc_txn_context.null

\* every cell of both buffers was written by the phase that fills it
Written ==
  /\ Live
  /\ ~btc_txn_context.inputs.null
  /\ ~btc_txn_context.outputs.null
  /\ \A i \in 1..Len(btc_txn_context.inputs.cells) :
       btc_txn_context.inputs.cells[i] # UninitInput
  /\ \A i \in 1..Len(btc_txn_context.outputs.cells) :
       btc_txn_context.outputs.cells[i] # UninitOutput

\* the events of `phase`: from its call up to and including its return
Span(phase) ==
  { i \in 1..Len(trace) :
      /\ \E c \in 1..i : IsCall(c, phase)
      /\ ~\E r \in 1..(i - 1) : trace[r].k = "ret" /\ trace[r].p = phase }

\* how many responses with this tag `phase` sent
SendsIn(phase, which_response) ==
  Cardinality({ i \in Span(phase) :
                  trace[i] = Ev("send", which_response, 0, TRUE) })

\* the last request the run received (0: none); the query buffer holds it
LastReceipt ==
  LET got == { i \in 1..Len(trace) : trace[i].k = "query" /\ trace[i].ok }
  IN  IF got = {} THEN 0 ELSE CHOOSE i \in got : \A j \in got : j <= i

\* the last request received was received by `phase`
LastReceivedBy(phase) == LastReceipt > 0 /\ trace[LastReceipt].p = phase

ExpectedTag(phase) ==
  CASE phase = "INIT" -> "INITIATE"
    [] phase = "META" -> "META"
    [] phase = "INPUTS" -> "INPUT"
    [] phase = "OUTPUTS" -> "OUTPUT"
    [] OTHER -> "SIGNATURE"

(***************************************************************************)
(* C1.  In btc_sign_transaction the phases run in order and a phase is     *)
(* started only if every earlier phase returned success: once a phase has  *)
(* returned failure, no phase is called, no query awaited and no prompt    *)
(* shown.  The chain does the opposite, so TLC refutes it.                 *)
(***************************************************************************)
C1_PhaseOnlyAfterSuccess ==
  Flow =>
    \A j \in 1..Len(trace) :
      /\ trace[j].k \in {"call", "query", "prompt"} =>
           \A i \in 1..(j - 1) : trace[i].k = "ret" => trace[i].ok
      /\ trace[j].k = "call" =>
           \A e \in 1..(PhaseIndex(trace[j].p) - 1) :
             \E i \in 1..(j - 1) : IsRet(i, Phases[e], TRUE)

(***************************************************************************)
(* C2.  A flow in which nothing was invalid and nothing was declined       *)
(* (no phase failed) has run META, INPUTS, OUTPUTS, VERIFY and reached     *)
(* SIGN when it arrives at the cleanup, and the fee page showed            *)
(* sum(inputs.value) - sum(outputs.value).  The flow stops after an        *)
(* accepted INIT, so TLC refutes it.                                       *)
(***************************************************************************)
C2_ValidFlowReachesSign ==
  (/\ Flow
   /\ pc = "cleanup"
   /\ Returned("INIT", TRUE)
   /\ \A i \in 1..Len(trace) :
        /\ trace[i].k \in {"error", "fault"} => FALSE
        /\ trace[i].k \in {"prompt", "query"} => trace[i].ok
        /\ trace[i].k = "ret" /\ trace[i].p # "SIGN" => trace[i].ok)
  => /\ \A e \in 2..5 : Returned(Phases[e], TRUE)
     /\ Called("SIGN")
     /\ \E i \in 1..Len(trace) :
          trace[i] = Ev("prompt", "fee",
                        SumValues(btc_txn_context.inputs.cells)
                          - SumValues(btc_txn_context.outputs.cells), TRUE)

(***************************************************************************)
(* C3 (a signature response is sent only after INIT, META, INPUTS, OUTPUTS *)
(* and VERIFY each returned success) has no formula here.  SignInputs is   *)
(* empty (btc_txn.c:452-453): no state of any run holds a signature        *)
(* response, so the statement has no case in which it could be seen to     *)
(* hold or to fail.                                                        *)
(***************************************************************************)

(***************************************************************************)
(* C4.  The context is zeroed when the flow starts; each of the context,   *)
(* the inputs buffer and the outputs buffer is allocated at most once and  *)
(* never freed more often than allocated; the module pointer is NULL       *)
(* exactly when no context is live; and when btc_sign_transaction has      *)
(* returned, everything allocated was freed once and the pointer is NULL.  *)
(***************************************************************************)
C4_ContextLifecycle ==
  Flow =>
    /\ pc = "INIT" => btc_txn_context = ZeroContext
    /\ \A what \in {"context", "inputs", "outputs"} :
         Frees(what) <= Allocs(what) /\ Allocs(what) <= 1
    /\ btc_txn_context.null <=> (Allocs("context") = Frees("context"))
    /\ pc = "done" =>
         /\ btc_txn_context = NullContext
         /\ \A what \in {"context", "inputs", "outputs"} :
              Frees(what) = Allocs(what)

\* the flow returned after META had allocated both buffers
C4_Witness ==
  /\ Flow
  /\ pc = "done"
  /\ Allocs("inputs") = 1
  /\ Allocs("outputs") = 1

(***************************************************************************)
(* C5.  A round whose request does not carry the discriminant of its       *)
(* phase ends with the error INVALID_REQUEST and the failure of the        *)
(* phase, nothing else.  The loop phases do not look at the discriminant   *)
(* of a request they received, so TLC refutes it.                          *)
(***************************************************************************)
C5_MismatchAborts ==
  LET got == { i \in 1..Len(trace) : trace[i].k = "query" /\ trace[i].ok }
      last == CHOOSE i \in got : \A j \in got : j <= i
  IN  /\ (Flow /\ pc = "META" /\ query.which_request # "INITIATE") =>
            EndsWith(<<Ev("call", "INIT", 0, TRUE)>>
                       \o btc_send_error("INVALID_REQUEST")
                       \o <<Ev("ret", "INIT", 0, FALSE)>>)
      /\ (got # {} /\ query.which_request # ExpectedTag(trace[last].p)) =>
            /\ Len(trace) >= last + 2
            /\ <<trace[last + 1]>> = btc_send_error("INVALID_REQUEST")
            /\ trace[last + 2] = Ev("ret", trace[last].p, 0, FALSE)

(***************************************************************************)
(* C6.  An input request whose claimed prev_txn_hash is not the double     *)
(* hash of the raw previous transaction it carries is answered with the    *)
(* error INVALID_DATA and fails the INPUTS phase.  The verifier is run on  *)
(* the record before the request is cloned into it, so TLC refutes it.     *)
(***************************************************************************)
C6_UnboundInputRejected ==
  (/\ LastReceivedBy("INPUTS")
   /\ query.which_request = "INPUT"
   /\ query.prev_txn_hash # HashOf(query.prev_txn))
  => /\ Len(trace) >= LastReceipt + 2
     /\ <<trace[LastReceipt + 1]>> = btc_send_error("INVALID_DATA")
     /\ trace[LastReceipt + 2] = Ev("ret", "INPUTS", 0, FALSE)

(***************************************************************************)
(* C7.  After an input request with a matching hash and an index in range  *)
(* was accepted, the stored value and script are those of the output at    *)
(* prev_output_index of the raw previous transaction.  The record is       *)
(* overwritten with the fields of the request, so TLC refutes it.          *)
(***************************************************************************)
C7_StoredValueIsProven ==
  (/\ pc = "INPUTS"
   /\ idx > 0
   /\ EndsWith(send_response("INPUT_ACCEPTED"))
   /\ query.which_request = "INPUT"
   /\ query.prev_txn_hash = HashOf(query.prev_txn)
   /\ query.prev_output_index < Len(query.prev_txn))
  => LET input == btc_txn_context.inputs.cells[idx]
         proven == query.prev_txn[query.prev_output_index + 1]
     IN  /\ input.value = proven.value
         /\ input.script_pub_key = proven.script_pub_key

(***************************************************************************)
(* C8.  When META received a metadata request: if sighash is not           *)
(* SIGHASH_ALL or a count is 0, it sent INVALID_DATA and failed, called    *)
(* no malloc, left both buffers NULL and sent no meta-accepted; otherwise  *)
(* it asked malloc for exactly input_count and output_count cells, stored  *)
(* the metadata and sent meta-accepted.                                    *)
(***************************************************************************)
C8_MetaRejectsOrAllocates ==
  (/\ Flow
   /\ Received("META")
   /\ query.which_request = "META"
   /\ \E i \in 1..Len(trace) : trace[i].k = "ret" /\ trace[i].p = "META")
  => IF \/ query.sighash # 1
        \/ query.input_count = 0
        \/ query.output_count = 0
       THEN /\ \E j \in 2..Len(trace) :
                 /\ IsRet(j, "META", FALSE)
                 /\ <<trace[j - 1]>> = btc_send_error("INVALID_DATA")
            /\ \A i \in 1..Len(trace) :
                 trace[i].k = "malloc" => trace[i].p = "context"
            /\ ~Sent("META_ACCEPTED")
            /\ btc_txn_context.inputs.null
            /\ btc_txn_context.outputs.null
            /\ btc_txn_context.metadata = ZeroMetadata
       ELSE /\ Returned("META", TRUE)
            /\ Sent("META_ACCEPTED")
            /\ \A i \in 1..Len(trace) :
                 /\ trace[i].k = "malloc" /\ trace[i].p = "inputs"
                      => trace[i].n = query.input_count
                 /\ trace[i].k = "malloc" /\ trace[i].p = "outputs"
                      => trace[i].n = query.output_count
            /\ \E i \in 1..Len(trace) :
                 trace[i].k = "malloc" /\ trace[i].p = "inputs"
            /\ \E i \in 1..Len(trace) :
                 trace[i].k = "malloc" /\ trace[i].p = "outputs"
            /\ pc = "cleanup" =>
                 /\ btc_txn_context.metadata.input_count = query.input_count
                 /\ btc_txn_context.metadata.output_count = query.output_count
                 /\ ~btc_txn_context.inputs.null =>
                      Len(btc_txn_context.inputs.cells) = query.input_count
                 /\ ~btc_txn_context.outputs.null =>
                      Len(btc_txn_context.outputs.cells) = query.output_count

\* META rejected a request with nonzero counts whose sighash is 0
C8_Witness ==
  /\ Flow
  /\ Received("META")
  /\ query.which_request = "META"
  /\ query.sighash = 0
  /\ query.input_count > 0
  /\ query.output_count > 0
  /\ Returned("META", FALSE)

(***************************************************************************)
(* C9.  In a flow whose initial confirmation was declined, no META         *)
(* request is awaited and no inputs or outputs storage is allocated.  The  *)
(* chain goes on to META after INIT failed, so TLC refutes it.             *)
(***************************************************************************)
C9_DeclineAllocatesNothing ==
  (Flow /\ \E i \in 1..Len(trace) : trace[i] = Ev("prompt", "send", 0, FALSE))
  => /\ \A i \in 1..Len(trace) :
          /\ trace[i].k = "query" => trace[i].p # "META"
          /\ trace[i].k = "malloc" => trace[i].p = "context"
     /\ btc_txn_context.inputs.null
     /\ btc_txn_context.outputs.null

(***************************************************************************)
(* C10.  When the OUTPUTS phase has received an output whose script        *)
(* starts with OP_RETURN and whose value is not zero, the run ends with    *)
(* that request, the error INVALID_DATA and the failure of the phase: no   *)
(* accepted response follows the request, whatever was accepted before.    *)
(***************************************************************************)
C10_DataCarrierWithValueRejected ==
  (/\ LastReceivedBy("OUTPUTS")
   /\ FirstByte(query.script_pub_key) = OP_RETURN
   /\ query.value # 0)
  => /\ Len(trace) >= LastReceipt + 2
     /\ <<trace[LastReceipt + 1]>> = btc_send_error("INVALID_DATA")
     /\ trace[LastReceipt + 2] = Ev("ret", "OUTPUTS", 0, FALSE)
     /\ \A i \in (LastReceipt + 1)..Len(trace) : trace[i].k # "send"

\* the second output of a run was such an output, the first was accepted
C10_Witness ==
  /\ LastReceivedBy("OUTPUTS")
  /\ FirstByte(query.script_pub_key) = OP_RETURN
  /\ query.value # 0
  /\ SendsIn("OUTPUTS", "INPUT_ACCEPTED") = 1
  /\ Returned("OUTPUTS", FALSE)

(***************************************************************************)
(* More trace readers.                                                     *)
(***************************************************************************)
\* how many responses with this tag the run sent
Sends(which_response) ==
  Cardinality({ i \in 1..Len(trace) :
                  trace[i] = Ev("send", which_response, 0, TRUE) })

\* how many requests the run received while in `phase`
Receipts(phase) ==
  Cardinality({ i \in 1..Len(trace) : trace[i] = Ev("query", phase, 0, TRUE) })

\* the error responses of the run
Errors == { i \in 1..Len(trace) : trace[i].k = "error" }

\* the prompts of the run
Prompts == { i \in 1..Len(trace) : trace[i].k = "prompt" }

\* `phase` has returned, with whatever result
Over(phase) == \E i \in 1..Len(trace) : trace[i].k = "ret" /\ trace[i].p = phase

(***************************************************************************)
(* C11.  When the OUTPUTS phase has returned: it returned success only if  *)
(* every one of the output_count rounds was accepted and some stored       *)
(* output has a value other than zero; and if all output_count rounds      *)
(* were accepted and every stored value is zero, the run ends with the     *)
(* last accepted response, the error INVALID_DATA and the failure of the   *)
(* phase.                                                                  *)
(***************************************************************************)
C11_AllZeroOutputsRejected ==
  (Over("OUTPUTS") /\ Live) =>
    LET m == btc_txn_context.metadata.output_count
        outputs == btc_txn_context.outputs.cells
        r == CHOOSE i \in 1..Len(trace) :
               trace[i].k = "ret" /\ trace[i].p = "OUTPUTS"
    IN  /\ Returned("OUTPUTS", TRUE) =>
             /\ SendsIn("OUTPUTS", "INPUT_ACCEPTED") = m
             /\ \E i \in 1..m : outputs[i].value # 0
        /\ (/\ SendsIn("OUTPUTS", "INPUT_ACCEPTED") = m
            /\ \A i \in 1..m : outputs[i].value = 0) =>
             /\ r > 2
             /\ <<trace[r - 2]>> = send_response("INPUT_ACCEPTED")
             /\ <<trace[r - 1]>> = btc_send_error("INVALID_DATA")
             /\ trace[r] = Ev("ret", "OUTPUTS", 0, FALSE)

\* two outputs of value zero were accepted and the phase failed after them
C11_Witness ==
  /\ Over("OUTPUTS")
  /\ btc_txn_context.metadata.output_count = 2
  /\ SendsIn("OUTPUTS", "INPUT_ACCEPTED") = 2
  /\ \A i \in 1..2 : btc_txn_context.outputs.cells[i].value = 0
  /\ Returned("OUTPUTS", FALSE)

\* the ceiling get_transaction_fee_threshold returned in this run, if any
Thresholds == { i \in 1..Len(trace) : trace[i].k = "threshold" }

\* the fee of the stored transaction
StoredFee ==
  SumValues(btc_txn_context.inputs.cells) - SumValues(btc_txn_context.outputs.cells)

\* where `phase` returned
RetOf(phase) ==
  CHOOSE r \in 1..Len(trace) : trace[r].k = "ret" /\ trace[r].p = phase

\* VERIFY has started on a context whose outputs sum to more than its inputs
VerifiesOverspend ==
  /\ Called("VERIFY")
  /\ Written
  /\ SumValues(btc_txn_context.outputs.cells)
       > SumValues(btc_txn_context.inputs.cells)

C13_WarningIffFeeAboveCeiling ==
  Written =>
    \A t \in Thresholds :
      LET max_fee == trace[t].n
          high == StoredFee > max_fee
      IN  StoredFee >= 0 =>
            /\ Len(trace) > t
            /\ high => trace[t + 1].k = "prompt" /\ trace[t + 1].p = "fee_too_high"
            /\ \A i \in Prompts :
                 /\ trace[i].p = "fee_too_high" => high /\ i = t + 1
                 /\ trace[i].p = "fee" =>
                      i = (IF high THEN t + 2 ELSE t + 1) /\ trace[i - 1].ok
                 /\ (trace[i].p \in {"fee_too_high", "fee"} /\ ~trace[i].ok) =>
                      /\ Len(trace) > i
                      /\ trace[i + 1] = Ev("ret", "VERIFY", 0, FALSE)
                      /\ \A j \in (i + 1)..Len(trace) : trace[j].k # "prompt"
                      /\ ~Called("SIGN")

(***************************************************************************)
(* C14.  VERIFY returned success only if the last thing it did was to      *)
(* show the fee page and the user accepted it; on a written context the    *)
(* page showed the fee of the stored transaction.  This holds below and    *)
(* above the ceiling.                                                      *)
(***************************************************************************)
C14_SuccessOnlyAfterFeePage ==
  \A r \in 1..Len(trace) :
    IsRet(r, "VERIFY", TRUE) =>
      /\ r > 1
      /\ trace[r - 1].k = "prompt"
      /\ trace[r - 1].p = "fee"
      /\ trace[r - 1].ok
      /\ Written => trace[r - 1].n = StoredFee

\* VERIFY succeeded with a fee above the ceiling
C14_Witness ==
  /\ Written
  /\ Returned("VERIFY", TRUE)
  /\ \E t \in Thresholds : StoredFee > trace[t].n
  /\ \E i \in Prompts : trace[i] = Ev("prompt", "fee_too_high", StoredFee, TRUE)

\* the receiver pages of the run, in the order shown
ReceiverPages ==
  SelectSeq(trace, LAMBDA e : e.k = "prompt" /\ e.p \in {"address", "value"})

\* the pages due for the outputs from index i on: for each output that is
\* not change, its address page (titled with i) and then its value page
RECURSIVE PagesDue(_, _)
PagesDue(outputs, i) ==
  IF i > Len(outputs) THEN <<>>
  ELSE (IF outputs[i].is_change THEN <<>>
        ELSE << [p |-> "address", n |-> i],
                [p |-> "value", n |-> outputs[i].value] >>)
       \o PagesDue(outputs, i + 1)

(***************************************************************************)
(* C15.  In VERIFY the receiver pages shown for the stored outputs are,    *)
(* in order, the address page and then the value page of each output that  *)
(* is not change, by increasing index, and nothing else: a change output   *)
(* has no page.  A declined page is the last thing VERIFY shows: it        *)
(* returns failure right after it.  The fee part (ceiling, warning, fee    *)
(* page) starts only when every page due was shown and accepted.           *)
(***************************************************************************)
C15_ReceiverPagesInOrder ==
  /\ \A i \in Prompts :
       (trace[i].p \in {"address", "value"} /\ ~trace[i].ok) =>
         /\ Len(trace) > i
         /\ trace[i + 1] = Ev("ret", "VERIFY", 0, FALSE)
         /\ \A j \in (i + 1)..Len(trace) : trace[j].k \notin {"prompt", "threshold"}
  /\ (Called("VERIFY") /\ Written) =>
       LET shown == ReceiverPages
           due == PagesDue(btc_txn_context.outputs.cells, 1)
       IN  /\ Len(shown) <= Len(due)
           /\ \A i \in 1..Len(shown) :
                /\ shown[i].p = due[i].p
                /\ shown[i].n = due[i].n
                /\ i < Len(shown) => shown[i].ok
           /\ (\/ Thresholds # {}
               \/ \E i \in Prompts : trace[i].p \in {"fee_too_high", "fee"}
               \/ (Over("VERIFY") /\ \A i \in Prompts : trace[i].ok)) =>
                /\ Len(shown) = Len(due)
                /\ \A i \in 1..Len(shown) : shown[i].ok

\* the first output is change, the second is not: only the pages of the
\* second were shown, and the fee part was reached
C15_Witness ==
  /\ Called("VERIFY")
  /\ Written
  /\ Len(btc_txn_context.outputs.cells) = 2
  /\ btc_txn_context.outputs.cells[1].is_change
  /\ ~btc_txn_context.outputs.cells[2].is_change
  /\ Len(ReceiverPages) = 2
  /\ ReceiverPages[1].n = 2
  /\ Thresholds # {}

(***************************************************************************)
(* C16.  A flow in which some phase returned failure shows the resync      *)
(* notice before the cleanup frees anything.  The notice is shown only     *)
(* when all six phases failed, which the chain cannot produce, so TLC      *)
(* refutes it.                                                             *)
(***************************************************************************)
C16_FailureShowsNotice ==
  (/\ Flow
   /\ pc \in {"cleanup", "done"}
   /\ \E i \in 1..Len(trace) : trace[i].k = "ret" /\ ~trace[i].ok)
  => \E n \in 1..Len(trace) :
       /\ trace[n] = Ev("notice", "check_cysync", 0, TRUE)
       /\ \A i \in 1..n : trace[i].k # "free"

(***************************************************************************)
(* C17.  A flow sends at most one error response, and after an error       *)
(* response it awaits no further query and sends no further response.      *)
(* The chain starts the next phase after the one that reported the error,  *)
(* so TLC refutes it.                                                      *)
(***************************************************************************)
C17_ErrorReportedOnce ==
  Flow =>
    /\ Cardinality(Errors) <= 1
    /\ \A e \in Errors : \A j \in (e + 1)..Len(trace) :
         trace[j].k \notin {"query", "send"}

(***************************************************************************)
(* C18.  Whenever btc_sign_transaction starts on an initiate request       *)
(* whose derivation path fails btc_derivation_path_guard, no prompt is     *)
(* ever shown in that execution.                                           *)
(***************************************************************************)
C18_NoPromptOnBadPath ==
  []((/\ Flow
      /\ pc = "INIT"
      /\ query.which_request = "INITIATE"
      /\ ~btc_derivation_path_guard(query.derivation_path))
     => [](Prompts = {}))

\* such a flow has returned: INIT reported the path, nothing was prompted
C18_Witness ==
  /\ Flow
  /\ pc = "done"
  /\ \E i \in 1..(Len(trace) - 1) :
       /\ trace[i] = Ev("call", "INIT", 0, TRUE)
       /\ <<trace[i + 1]>> = btc_send_error("INVALID_DATA")
  /\ Received("META")
  /\ Prompts = {}

\* the accepted response that carries the tag of `phase`
ResponseOf(phase) ==
  CASE phase = "INIT" -> "CONFIRMATION"
    [] phase = "META" -> "META_ACCEPTED"
    [] phase = "INPUTS" -> "INPUT_ACCEPTED"
    [] phase = "OUTPUTS" -> "OUTPUT_ACCEPTED"
    [] OTHER -> "SIGNATURE"

(***************************************************************************)
(* C19.  Every response sent carries the tag of the phase that sent it:    *)
(* confirmation for INIT, meta-accepted for META, input-accepted for       *)
(* INPUTS, output-accepted for OUTPUTS.  fetch_valid_output answers with   *)
(* the input-accepted tag, so TLC refutes it.                              *)
(***************************************************************************)
C19_ResponseTagOfPhase ==
  \A j \in 1..Len(trace) :
    trace[j].k = "send" =>
      LET calls == { i \in 1..(j - 1) : trace[i].k = "call" }
          c == CHOOSE i \in calls : \A k \in calls : k <= i
      IN  calls # {} /\ trace[j].p = ResponseOf(trace[c].p)

(***************************************************************************)
(* C20.  When the INPUTS phase, entered after META accepted                 *)
(* input_count = n, has returned success, it received n input requests     *)
(* and sent n input-accepted responses; the input accepted last is stored  *)
(* at its                                                                  *)
(* index of arrival and the cells after it are untouched; a round that     *)
(* reports a binding failure is the last one, with fewer than n accepted.  *)
(* A round whose await failed is carried out on the request of the round   *)
(* before, so TLC refutes it.                                              *)
(***************************************************************************)
C20_InputRoundsCounted ==
  LET n == btc_txn_context.metadata.input_count
      inputs == btc_txn_context.inputs.cells
  IN  (entry = "fetch_valid_input" /\ Live) =>
        /\ Returned("INPUTS", TRUE) =>
             /\ Receipts("INPUTS") = n
             /\ SendsIn("INPUTS", "INPUT_ACCEPTED") = n
        /\ (pc = "INPUTS" /\ idx > 0) =>
             /\ SendsIn("INPUTS", "INPUT_ACCEPTED") = idx
             /\ inputs[idx] = CloneInput(inputs[idx], query)
             /\ \A k \in (idx + 1)..n : inputs[k] = UninitInput
        /\ \A e \in Errors \cap Span("INPUTS") :
             /\ SendsIn("INPUTS", "INPUT_ACCEPTED") < n
             /\ Len(trace) > e
             /\ trace[e + 1] = Ev("ret", "INPUTS", 0, FALSE)

(***************************************************************************)
(* C21.  In a flow no access leaves allocated memory: the context is not   *)
(* dereferenced while NULL, and inputs[idx] and outputs[idx] are touched   *)
(* only in an allocated buffer, below the count.  The result of the        *)
(* malloc of the context is not checked before memzero, so TLC refutes     *)
(* it.                                                                     *)
(***************************************************************************)
C21_NoAccessOutsideAllocation ==
  Flow =>
    /\ pc # "fault"
    /\ \A i \in 1..Len(trace) : trace[i].k # "fault"
    /\ pc \in {"INIT", "META", "INPUTS", "OUTPUTS", "VERIFY", "SIGN"} =>
         ~btc_txn_context.null
    /\ (pc = "INPUTS" /\ idx < btc_txn_context.metadata.input_count) =>
         /\ ~btc_txn_context.inputs.null
         /\ idx + 1 <= Len(btc_txn_context.inputs.cells)
    /\ (pc \in {"OUTPUTS", "VERIFY"}
          /\ idx < btc_txn_context.metadata.output_count) =>
         /\ ~btc_txn_context.outputs.null
         /\ idx + 1 <= Len(btc_txn_context.outputs.cells)

(***************************************************************************)
(* C22.  A phase that failed left the context as it found it.  After       *)
(* handle_initiate_query returned failure, init_info is still all zero,    *)
(* no confirmation response was sent and the flow status was not set.      *)
(* After fetch_transaction_meta returned failure, metadata is still all    *)
(* zero, both buffers are NULL and nothing was allocated for them.         *)
(***************************************************************************)
C22_FailedPhaseLeavesContext ==
  Flow =>
    /\ Returned("INIT", FALSE) =>
         /\ btc_txn_context.init_info = ZeroInitInfo
         /\ ~Sent("CONFIRMATION")
         /\ \A i \in 1..Len(trace) : trace[i].k # "status"
    /\ Returned("META", FALSE) =>
         /\ btc_txn_context.metadata = ZeroMetadata
         /\ btc_txn_context.inputs.null
         /\ btc_txn_context.outputs.null
         /\ Allocs("inputs") = 0
         /\ Allocs("outputs") = 0
         /\ ~Sent("META_ACCEPTED")

\* the user declined the confirmation of a valid initiate request, then
\* META rejected the metadata it received; the context is still live
C22_Witness ==
  /\ Flow
  /\ ~btc_txn_context.null
  /\ \E i \in Prompts : trace[i] = Ev("prompt", "send", 0, FALSE)
  /\ Returned("INIT", FALSE)
  /\ Received("META")
  /\ query.which_request = "META"
  /\ Returned("META", FALSE)

\* how many host queries the run awaited after the initiate query
Awaits == Cardinality({ i \in 1..Len(trace) : trace[i].k = "query" })

(***************************************************************************)
(* C23.  A flow always has a next step until btc_sign_transaction has      *)
(* returned (every blocking call returning, it terminates); it awaits at   *)
(* most 1 + input_count + output_count + 1 host queries after the          *)
(* initiate query; and the phases it calls are called once each, in the    *)
(* order of Phases.  Every step extends the trace, so a flow cannot        *)
(* cycle; but a flow whose context could not be allocated runs into        *)
(* undefined behaviour before any phase and need not return, so TLC        *)
(* refutes it.                                                             *)
(***************************************************************************)
C23_FlowTerminates ==
  Flow =>
    /\ pc = "done" \/ ENABLED Next
    /\ Awaits <= 1 + btc_txn_context.metadata.input_count
                   + btc_txn_context.metadata.output_count + 1
    /\ \A i, j \in 1..Len(trace) :
         (i < j /\ trace[i].k = "call" /\ trace[j].k = "call") =>
           PhaseIndex(trace[i].p) < PhaseIndex(trace[j].p)

====
